---------------------------- MODULE Spec2Model ----------------------------
(***************************************************************************)
(* Model of the route attribute segmentation of radi (src/src/App.tsx):    *)
(* calculateRoute fetches a route, calculateRouteSurface (debounced)       *)
(* queries the geodata service once for the route and, in the response     *)
(* callback, classifies every route edge by surface and illumination,      *)
(* accumulates distances per category and merges edges into polylines.     *)
(*                                                                         *)
(* JavaScript values are modelled as follows.                              *)
(*   - an object is a function from its present property names to values;  *)
(*     "x.p === undefined" is "p is not in DOMAIN x";                      *)
(*   - a Map<string, V> is a function from its keys to values;             *)
(*   - null | T is the empty tuple (Null) or the 1-tuple <<v>>;            *)
(*   - an array that is shared by reference lives in a heap (a sequence of *)
(*     arrays) and is held through its index, so that push() on it is seen *)
(*     through every holder;                                               *)
(*   - a number is an integer, Undefined or NaN;                           *)
(*   - way.nodes is read through includes() only and is a set.             *)
(* A Map's insertion order is not modelled: no reader of the four outputs  *)
(* depends on it (the bars are sorted by value, the paths looked up by     *)
(* key).  The throttle around calculateRoute only spaces its calls in time *)
(* and is not modelled: calculateRoute may run at any moment.              *)
(***************************************************************************)
EXTENDS Integers, Sequences, FiniteSets, TLC

VARIABLES
    route,               \* useState route: Null or <<[id, nodes, distance]>>
    surfacesOnRoute,     \* useState: Null or <<Map category -> meters>>
    illuminatedOnRoute,  \* useState: Null or <<Map category -> meters>>
    illuminatedPaths,    \* useState: Null or <<Map category -> polylines>>
    surfacePaths,        \* useState: Null or <<Map category -> polylines>>
    routeFetches,        \* routing requests in flight (their ids)
    debounced,           \* the lodash debounce around calculateRouteSurface
    overpassFetches,     \* geodata requests in flight, with the closure's data
    issued,              \* number of routing requests issued so far
    runs,                \* history: what every aggregation run did
    publishedBy,         \* history: the run whose callback set the outputs, or 0
    debounceLog          \* history: what became of every debounced call

vars == <<route, surfacesOnRoute, illuminatedOnRoute, illuminatedPaths,
          surfacePaths, routeFetches, debounced, overpassFetches, issued,
          runs, publishedBy, debounceLog>>

---------------------------------------------------------------------------
(* Bounds of the model.                                                    *)

MaxRouteLen == 3        \* most nodes of a route (SpecAgg)
MaxWays == 2            \* most ways of a geodata answer (SpecAgg)
MaxFetches == 3         \* most routing requests issued in a behaviour (Spec)

NodeIds == {1, 2, 3}

---------------------------------------------------------------------------
(* JavaScript values.                                                      *)

Null == <<>>
Some(v) == <<v>>

Undefined == -1         \* distances[i] past the end of the array
NaN == -2               \* the result of number + undefined

\* a || 0 : 0, NaN and undefined are falsy
OrZero(a) == IF a \in {0, Undefined, NaN} THEN 0 ELSE a

\* a + b on numbers
Plus(a, b) == IF a \in {Undefined, NaN} \/ b \in {Undefined, NaN} THEN NaN ELSE a + b

\* arr[i] of a JavaScript array (0-based i), undefined outside of it
At(arr, i) == IF i + 1 \in DOMAIN arr THEN arr[i + 1] ELSE Undefined

Last(s) == s[Len(s)]

---------------------------------------------------------------------------
(* TagTranslator.                                                          *)

UNKNOWN == "Unbekannt"

translateSurface(surface) ==
    CASE surface \in {"paved", "asphalt", "concrete"} -> "Asphalt"
      [] surface = "concrete:lanes" -> "Asphaltweg"
      [] surface = "concrete:plates" -> "Asphaltplatten"
      [] surface = "paving_stones" -> "Ebener Pflasterstein"
      [] surface \in {"sett", "cobblestone"} -> "Pflasterstein"
      [] surface = "unhewn_cobblestone" -> "Kopfsteinpflaster"
      [] surface = "unpaved" -> "Uneben"
      [] surface = "compacted" -> "Guter Waldweg"
      [] surface \in {"fine_gravel", "pebblestone"} -> "Kies"
      [] surface = "gravel" -> "Schotter"
      [] surface \in {"earth", "dirt", "ground"} -> "Erdboden"
      [] surface = "grass" -> "Gras"
      [] surface = "grass_paver" -> "Betonstein auf Gras"
      [] surface = "mud" -> "Matsch"
      [] surface = "sand" -> "Sand"
      [] surface = "woodchips" -> "Holzschnitzel"
      [] OTHER -> surface

translateLit(lit) ==
    IF lit = "no" THEN "Nicht beleuchtet" ELSE "Beleuchtet"

---------------------------------------------------------------------------
(* The geodata answer: node records and way records.                       *)

\* a node element of the answer; distinct nodes have distinct coordinates,
\* but may share a latitude or a longitude
NodeElement(n) == [id |-> n, lat |-> n \div 2, lon |-> n % 2]

\* the tag objects a way element may carry; a way element with no tag
\* carries no "tags" property at all
TagSets ==
    { <<>>,
      [surface |-> "asphalt", lit |-> "no"],
      [surface |-> "paved", lit |-> "yes"],
      [surface |-> "tartan"] }

WayNodeSets == {s \in SUBSET NodeIds : Cardinality(s) >= 2}

WayElements ==
    [nodes : WayNodeSets] \cup [nodes : WayNodeSets, tags : TagSets]

SeqsUpTo(S, n) == UNION {[1..k -> S] : k \in 0..n}

\* nodesById = Object.fromEntries(node elements); the service returns the
\* nodes of the ways it returns
nodesById(ways) ==
    LET ids == UNION {ways[k].nodes : k \in DOMAIN ways}
    IN  [n \in ids |-> NodeElement(n)]

---------------------------------------------------------------------------
(* RouteEdgeExtractor: the queryItems of calculateRouteSurface.            *)

queryItems(nodes, distances) ==
    [i \in 1..(IF Len(nodes) = 0 THEN 0 ELSE Len(nodes) - 1) |->
        [distance |-> At(distances, i - 1),
         start |-> nodes[i],
         end |-> nodes[i + 1]]]

---------------------------------------------------------------------------
(* WayIndex: ways.find(way => includes(start) && includes(end)).           *)
(* The index of the way found, 0 when find returns undefined.              *)

\* ways.find replaced by a search from the end of the array
RECURSIVE findLastFrom(_, _, _)
findLastFrom(ways, item, k) ==
    IF k > Len(ways) THEN 0
    ELSE LET later == findLastFrom(ways, item, k + 1)
         IN  IF later # 0 THEN later
             ELSE IF item.start \in ways[k].nodes /\ item.end \in ways[k].nodes THEN k
             ELSE 0

RECURSIVE findFrom(_, _, _)
findFrom(ways, item, k) ==
    IF k > Len(ways) THEN 0
    ELSE IF item.start \in ways[k].nodes /\ item.end \in ways[k].nodes THEN k
    ELSE findFrom(ways, item, k + 1)

wayContainingNodes(ways, item) == findFrom(ways, item, 1)

---------------------------------------------------------------------------
(* SegmentAggregator: the body of the for loop.  The state of the loop is  *)
(*   threw              an exception left the loop                         *)
(*   heap               the path arrays created so far                     *)
(*   illuminatedPaths   Map category -> sequence of heap indices           *)
(*   surfacePaths       Map category -> sequence of heap indices           *)
(*   surfaces           Map category -> number                             *)
(*   illuminated        Map category -> number                             *)
(*   classified         history: <<surface, lit, way index>> of each edge  *)

MapSet(m, k, v) == [x \in DOMAIN m \cup {k} |-> IF x = k THEN v ELSE m[x]]

LoopInit ==
    [threw |-> FALSE, heap |-> <<>>,
     illuminatedPaths |-> <<>>, surfacePaths |-> <<>>,
     surfaces |-> <<>>, illuminated |-> <<>>, classified |-> <<>>]

\* the if/else on xPaths.has(category): extends the last polyline of the
\* category in place, or adds the array `path` (heap index) to the category;
\* a category's list is never empty, so lastPoint is never undefined
addPath(heap, paths, category, path, startNode, endNode) ==
    IF category \in DOMAIN paths
    THEN LET last == Last(paths[category])
             lastPoint == Last(heap[last])
         IN  IF lastPoint.lat = startNode.lat /\ lastPoint.lon = startNode.lon
             THEN [heap |-> [heap EXCEPT ![last] = Append(@, endNode)],
                   paths |-> paths]
             ELSE [heap |-> heap,
                   paths |-> [paths EXCEPT ![category] = Append(@, path)]]
    ELSE [heap |-> heap, paths |-> MapSet(paths, category, <<path>>)]

\* the accumulation replaced by an assignment
addDistanceOverwriting(totals, category, distance) ==
    MapSet(totals, category, distance)

\* the if/else on totals.has(category)
addDistance(totals, category, distance) ==
    IF category \in DOMAIN totals
    THEN MapSet(totals, category, Plus(OrZero(totals[category]), distance))
    ELSE MapSet(totals, category, distance)

surfaceOf(way) ==
    IF "surface" \notin DOMAIN way.tags THEN UNKNOWN
    ELSE translateSurface(way.tags.surface)

litOf(way) ==
    IF "lit" \notin DOMAIN way.tags THEN UNKNOWN
    ELSE translateLit(way.tags.lit)

loopBody(st, item, ways) ==
    LET w == wayContainingNodes(ways, item)
    IN  IF w = 0 \/ "tags" \notin DOMAIN ways[w]
        THEN [st EXCEPT !.threw = TRUE]    \* TypeError reading .tags / .surface
        ELSE
        LET surface == surfaceOf(ways[w])
            lit == litOf(ways[w])
            startNode == nodesById(ways)[item.start]
            endNode == nodesById(ways)[item.end]
            heap0 == Append(st.heap, <<startNode, endNode>>)
            path == Len(heap0)
            il == addPath(heap0, st.illuminatedPaths, lit, path, startNode, endNode)
            su == addPath(il.heap, st.surfacePaths, surface, path, startNode, endNode)
        IN  [threw |-> FALSE,
             heap |-> su.heap,
             illuminatedPaths |-> il.paths,
             surfacePaths |-> su.paths,
             surfaces |-> addDistance(st.surfaces, surface, item.distance),
             illuminated |-> addDistance(st.illuminated, lit, item.distance),
             classified |-> Append(st.classified, <<surface, lit, w>>)]

\* the loop state after the first k items
RECURSIVE loop(_, _, _)
loop(items, ways, k) ==
    IF k = 0 THEN LoopInit
    ELSE LET st == loop(items, ways, k - 1)
         IN  IF st.threw THEN st ELSE loopBody(st, items[k], ways)

\* the Map category -> polylines as the setter receives it
deref(heap, paths) ==
    [c \in DOMAIN paths |-> [j \in DOMAIN paths[c] |-> heap[paths[c][j]]]]

---------------------------------------------------------------------------
(* The application: calculateRoute, the debounce around                    *)
(* calculateRouteSurface, and the callbacks of the two fetches.            *)

DEBOUNCE_WAIT == 1000
TickMs == DEBOUNCE_WAIT \div 2

outputs == <<surfacesOnRoute, illuminatedOnRoute, illuminatedPaths, surfacePaths>>

\* the routing provider's answers of the application specification
AppResults ==
    { [nodes |-> <<1, 2, 3>>, distances |-> <<1, 2>>],
      [nodes |-> <<3, 2>>, distances |-> <<2>>] }

\* the geodata service's answers of the application specification
AppAnswers ==
    { << [nodes |-> {1, 2, 3}, tags |-> [surface |-> "asphalt", lit |-> "no"]] >>,
      << [nodes |-> {1, 2}, tags |-> [surface |-> "paved", lit |-> "yes"]] >>,
      << [nodes |-> {2, 3}, tags |-> [surface |-> "tartan"]] >> }

\* every answer of at most MaxWays ways
AggAnswers == SeqsUpTo(WayElements, MaxWays)

\* every route of at most MaxRouteLen nodes whose edges join distinct nodes,
\* up to a renaming of the node identifiers (which are opaque): the first
\* node is 1 and a node not seen before is the least unused identifier
AggRoutes ==
    {r \in SeqsUpTo(NodeIds, MaxRouteLen) :
        /\ \A i \in 1..(Len(r) - 1) : r[i] # r[i + 1]
        /\ \A i \in DOMAIN r : \A n \in 1..(r[i] - 1) : \E j \in 1..(i - 1) : r[j] = n}

\* the distance arrays: 1, 2, 4, ... (every sum of distances tells which
\* edges it adds up), of any length up to MaxRouteLen, whatever the route
AggDistances == {[i \in 1..k |-> 2 ^ (i - 1)] : k \in 0..MaxRouteLen}

Init ==
    /\ route = Null
    /\ surfacesOnRoute = Null
    /\ illuminatedOnRoute = Null
    /\ illuminatedPaths = Null
    /\ surfacePaths = Null
    /\ routeFetches = {}
    /\ debounced = Null
    /\ overpassFetches = {}
    /\ issued = 0
    /\ runs = <<>>
    /\ publishedBy = 0
    /\ debounceLog = [superseded |-> {}, sent |-> <<>>]

\* useEffect on [startPosition, endPosition]: the body of calculateRoute
calculateRoute ==
    /\ issued < MaxFetches
    /\ \E startPosition \in BOOLEAN, endPosition \in BOOLEAN :
          IF startPosition /\ endPosition
          THEN /\ issued' = issued + 1
               /\ routeFetches' = routeFetches \cup {issued + 1}
          ELSE UNCHANGED <<issued, routeFetches>>
    /\ UNCHANGED <<route, outputs, debounced, overpassFetches, runs, publishedBy,
                   debounceLog>>

\* .then((results) => ...) of the routing fetch; history: the results are
\* numbered in the order of their arrival, and a call of the debounced
\* function that replaces a pending one is logged with the time the
\* replaced call had been pending
RouteResponse(q, Results) ==
    /\ q \in routeFetches
    /\ \E r \in Results :
          LET results == [id |-> IF route = Null THEN 1 ELSE route[1].id + 1,
                          nodes |-> r.nodes, distances |-> r.distances]
          IN  /\ route' = Some(results)
              /\ debounced' = Some([wait |-> DEBOUNCE_WAIT, args |-> results])
    /\ surfacesOnRoute' = Null
    /\ illuminatedOnRoute' = Null
    /\ illuminatedPaths' = Null
    /\ surfacePaths' = Null
    /\ routeFetches' = routeFetches \ {q}
    /\ publishedBy' = 0
    /\ debounceLog' =
          IF debounced = Null THEN debounceLog
          ELSE [debounceLog EXCEPT !.superseded = @ \cup
                   {[id |-> debounced[1].args.id,
                     after |-> DEBOUNCE_WAIT - debounced[1].wait]}]
    /\ UNCHANGED <<overpassFetches, issued, runs>>

\* the routing fetch rejects: no callback runs
RouteFailure(q) ==
    /\ q \in routeFetches
    /\ routeFetches' = routeFetches \ {q}
    /\ UNCHANGED <<route, outputs, debounced, overpassFetches, issued, runs, publishedBy,
                   debounceLog>>

\* time passes while the debounce timer runs
Tick ==
    /\ debounced # Null
    /\ debounced[1].wait > 0
    /\ debounced' = Some([debounced[1] EXCEPT !.wait = @ - TickMs])
    /\ UNCHANGED <<route, outputs, routeFetches, overpassFetches, issued, runs, publishedBy,
                   debounceLog>>

\* the body of calculateRouteSurface up to fetch, for the pending call;
\* history: the query is logged with the time the call had been pending
invoke ==
    /\ LET results == debounced[1].args
       IN  overpassFetches' = overpassFetches \cup
              {[id |-> results.id, nodes |-> results.nodes,
                distances |-> results.distances,
                queryItems |-> queryItems(results.nodes, results.distances)]}
    /\ debounceLog' =
          [debounceLog EXCEPT !.sent =
              Append(@, [id |-> debounced[1].args.id,
                         waited |-> DEBOUNCE_WAIT - debounced[1].wait])]
    /\ debounced' = Null
    /\ UNCHANGED <<route, outputs, routeFetches, issued, runs, publishedBy>>

\* the debounced function invoked on a pending call without waiting for
\* its timer
DebounceFireWithoutWaiting ==
    /\ debounced # Null
    /\ invoke

\* the debounce timer expires: the pending call is invoked
DebounceFire ==
    /\ debounced # Null
    /\ debounced[1].wait <= 0
    /\ invoke

\* history: the run of request f, the answer it got, how it ended, the
\* outputs before and after its callback, and the run that had set the
\* outputs before (0: none)
Record(f, ways, status, after) ==
    MapSet(runs, f.id, [nodes |-> f.nodes, distances |-> f.distances,
                        queryItems |-> f.queryItems, ways |-> ways,
                        status |-> status, before |-> outputs, after |-> after,
                        publisher |-> publishedBy])

\* what the four setters receive from a loop that ended in state st
setterArguments(st) ==
    <<Some(st.surfaces), Some(st.illuminated),
      Some(deref(st.heap, st.illuminatedPaths)),
      Some(deref(st.heap, st.surfacePaths))>>

\* the callback with the two path setters moved into the loop: a loop that
\* throws has published the paths built so far
OverpassResponseSettingPathsInLoop(f, Answers) ==
    /\ f \in overpassFetches
    /\ overpassFetches' = overpassFetches \ {f}
    /\ \E ways \in Answers :
          LET st == loop(f.queryItems, ways, Len(f.queryItems))
              args == setterArguments(st)
          IN  /\ illuminatedPaths' = args[3]
              /\ surfacePaths' = args[4]
              /\ IF st.threw
                 THEN /\ UNCHANGED <<surfacesOnRoute, illuminatedOnRoute, publishedBy>>
                      /\ runs' = Record(f, ways, "threw",
                                        <<surfacesOnRoute, illuminatedOnRoute,
                                          args[3], args[4]>>)
                 ELSE /\ surfacesOnRoute' = args[1]
                      /\ illuminatedOnRoute' = args[2]
                      /\ runs' = Record(f, ways, "completed", args)
                      /\ publishedBy' = f.id
    /\ UNCHANGED <<route, routeFetches, debounced, issued, debounceLog>>

\* .then((answer) => ...) of the geodata fetch
OverpassResponse(f, Answers) ==
    /\ f \in overpassFetches
    /\ overpassFetches' = overpassFetches \ {f}
    /\ \E ways \in Answers :
          LET st == loop(f.queryItems, ways, Len(f.queryItems))
              args == setterArguments(st)
          IN  IF st.threw
              THEN /\ runs' = Record(f, ways, "threw", outputs)
                   /\ UNCHANGED <<outputs, publishedBy>>
              ELSE /\ illuminatedPaths' = args[3]
                   /\ surfacePaths' = args[4]
                   /\ surfacesOnRoute' = args[1]
                   /\ illuminatedOnRoute' = args[2]
                   /\ runs' = Record(f, ways, "completed", args)
                   /\ publishedBy' = f.id
    /\ UNCHANGED <<route, routeFetches, debounced, issued, debounceLog>>

\* the geodata fetch rejects, or its body is no JSON: no callback runs
OverpassFailure(f) ==
    /\ f \in overpassFetches
    /\ overpassFetches' = overpassFetches \ {f}
    /\ runs' = Record(f, <<>>, "failed", outputs)
    /\ UNCHANGED <<route, outputs, routeFetches, debounced, issued, publishedBy,
                   debounceLog>>

Next ==
    \/ calculateRoute
    \/ \E q \in routeFetches : RouteResponse(q, AppResults)
    \/ \E q \in routeFetches : RouteFailure(q)
    \/ Tick
    \/ DebounceFire
    \/ \E f \in overpassFetches : OverpassResponse(f, AppAnswers)
    \/ \E f \in overpassFetches : OverpassFailure(f)

Spec == Init /\ [][Next]_vars

(* The aggregation alone: one geodata request is in flight for an          *)
(* arbitrary route result, and its answer is arbitrary.                    *)

InitAgg ==
    /\ \E nodes \in AggRoutes, distances \in AggDistances :
          LET results == [id |-> 1, nodes |-> nodes, distances |-> distances]
          IN  /\ route = Some(results)
              /\ overpassFetches =
                    {[id |-> 1, nodes |-> nodes, distances |-> distances,
                      queryItems |-> queryItems(nodes, distances)]}
    /\ surfacesOnRoute = Null
    /\ illuminatedOnRoute = Null
    /\ illuminatedPaths = Null
    /\ surfacePaths = Null
    /\ routeFetches = {}
    /\ debounced = Null
    /\ issued = 1
    /\ runs = <<>>
    /\ publishedBy = 0
    /\ debounceLog = [superseded |-> {}, sent |-> <<[id |-> 1, waited |-> DEBOUNCE_WAIT]>>]

NextAgg == \E f \in overpassFetches : OverpassResponse(f, AggAnswers)

SpecAgg == InitAgg /\ [][NextAgg]_vars

---------------------------------------------------------------------------
(* Vocabulary of the properties.  Nothing below is used by the actions.    *)

Published == publishedBy # 0

\* the run whose callback set the outputs
Pub == runs[publishedBy]

IsNumber(d) == d \notin {Undefined, NaN}

\* the sum of f[x] over the x in S
RECURSIVE SumOver(_, _)
SumOver(S, f) ==
    IF S = {} THEN 0
    ELSE LET x == CHOOSE y \in S : TRUE
         IN  f[x] + SumOver(S \ {x}, f)

\* the sum of the values of a Map category -> number
SumMap(m) == SumOver(DOMAIN m, m)

\* the sum of the distances of the edges in the set I of ordinals
SumDistances(items, I) == SumOver(I, [i \in I |-> items[i].distance])

Matches(way, item) == item.start \in way.nodes /\ item.end \in way.nodes

HasWay(ways, item) == \E k \in DOMAIN ways : Matches(ways[k], item)

\* the first way, in the order received, that holds both nodes of the edge
FirstWay(ways, item) ==
    ways[CHOOSE k \in DOMAIN ways :
            /\ Matches(ways[k], item)
            /\ \A j \in 1..(k - 1) : ~Matches(ways[j], item)]

\* the category of each raw surface value of TagSets: two synonyms of the
\* table, and a value the table does not list, which is its own category
SurfaceTable ==
    [raw \in {"asphalt", "paved", "tartan"} |->
        IF raw = "tartan" THEN "tartan" ELSE "Asphalt"]

\* the categories of a way: Unknown for an absent raw value, also when the
\* way carries no tags at all
SurfaceCategory(way) ==
    IF "tags" \notin DOMAIN way \/ "surface" \notin DOMAIN way.tags THEN UNKNOWN
    ELSE SurfaceTable[way.tags.surface]

LitCategory(way) ==
    IF "tags" \notin DOMAIN way \/ "lit" \notin DOMAIN way.tags THEN UNKNOWN
    ELSE IF way.tags.lit = "no" THEN "Nicht beleuchtet"
    ELSE "Beleuchtet"

\* the categories a run's edges fall into when every edge is classified by
\* its first way, and Unknown when it has none
EdgeSurface(run, i) ==
    IF HasWay(run.ways, run.queryItems[i])
    THEN SurfaceCategory(FirstWay(run.ways, run.queryItems[i]))
    ELSE UNKNOWN

EdgeLit(run, i) ==
    IF HasWay(run.ways, run.queryItems[i])
    THEN LitCategory(FirstWay(run.ways, run.queryItems[i]))
    ELSE UNKNOWN

Edges(run) == DOMAIN run.queryItems

AllDistancesNumbers(run) ==
    \A i \in Edges(run) : IsNumber(run.queryItems[i].distance)

---------------------------------------------------------------------------
\* C1: for every completed aggregation run whose edge distances are
\* numbers, and on each axis, the per-category totals published by the run
\* add up to the sum of the distances of all edges of the route.
C1_TotalsAddUp ==
    (Published /\ AllDistancesNumbers(Pub)) =>
        /\ SumMap(surfacesOnRoute[1]) = SumDistances(Pub.queryItems, Edges(Pub))
        /\ SumMap(illuminatedOnRoute[1]) = SumDistances(Pub.queryItems, Edges(Pub))

\* a completed run of two edges that fall into one surface category and
\* into two illumination categories
C1_Witness ==
    /\ Published
    /\ AllDistancesNumbers(Pub)
    /\ Len(Pub.queryItems) = 2
    /\ Cardinality(DOMAIN surfacesOnRoute[1]) = 1
    /\ Cardinality(DOMAIN illuminatedOnRoute[1]) = 2

---------------------------------------------------------------------------
\* C9: in every completed run, every edge is classified on both axes by
\* the first way of the answer that holds both of its nodes, whatever the
\* later ways are: on each axis the categories that have a total are those
\* of the edges' first ways, and the total of a category is the sum of the
\* distances of the edges whose first way has that category.
C9_FirstWayWins ==
    (Published /\ AllDistancesNumbers(Pub)) =>
        /\ DOMAIN surfacesOnRoute[1] = {EdgeSurface(Pub, i) : i \in Edges(Pub)}
        /\ DOMAIN illuminatedOnRoute[1] = {EdgeLit(Pub, i) : i \in Edges(Pub)}
        /\ \A c \in DOMAIN surfacesOnRoute[1] :
              surfacesOnRoute[1][c] =
                 SumDistances(Pub.queryItems,
                              {i \in Edges(Pub) : EdgeSurface(Pub, i) = c})
        /\ \A c \in DOMAIN illuminatedOnRoute[1] :
              illuminatedOnRoute[1][c] =
                 SumDistances(Pub.queryItems,
                              {i \in Edges(Pub) : EdgeLit(Pub, i) = c})

\* a completed run with an edge that two ways hold, the second way being
\* of another category on both axes
C9_Witness ==
    /\ Published
    /\ AllDistancesNumbers(Pub)
    /\ \E i \in Edges(Pub) :
          /\ Len(Pub.ways) = 2
          /\ Matches(Pub.ways[1], Pub.queryItems[i])
          /\ Matches(Pub.ways[2], Pub.queryItems[i])
          /\ "tags" \in DOMAIN Pub.ways[2]
          /\ SurfaceCategory(Pub.ways[1]) # SurfaceCategory(Pub.ways[2])
          /\ LitCategory(Pub.ways[1]) # LitCategory(Pub.ways[2])

---------------------------------------------------------------------------
(* Polylines.                                                              *)

SameCoordinates(p, q) == p.lat = q.lat /\ p.lon = q.lon

\* the coordinates of nodes a and b are consecutive coordinates of polyline
Consecutive(polyline, a, b) ==
    \E j \in 1..(Len(polyline) - 1) :
        /\ SameCoordinates(polyline[j], NodeElement(a))
        /\ SameCoordinates(polyline[j + 1], NodeElement(b))

\* the polylines of category c in a Map category -> polylines that hold
\* the edge as two consecutive coordinates
Holding(paths, c, item) ==
    IF c \notin DOMAIN paths THEN {}
    ELSE {j \in DOMAIN paths[c] : Consecutive(paths[c][j], item.start, item.end)}

\* the route has 2 nodes or more and one distance per edge
WellFormed(run) ==
    Len(run.nodes) >= 2 /\ Len(run.distances) = Len(run.nodes) - 1

\* the route visits no node twice
SimpleRoute(run) ==
    \A i, j \in DOMAIN run.nodes : i # j => run.nodes[i] # run.nodes[j]

\* the polylines of the maximal runs of route-consecutive edges of one
\* category: cats[i] is the category of edge i, k the number of edges taken
RECURSIVE MaximalRuns(_, _, _)
MaximalRuns(items, cats, k) ==
    IF k = 0 THEN <<>>
    ELSE LET before == MaximalRuns(items, cats, k - 1)
             c == cats[k]
             a == NodeElement(items[k].start)
             b == NodeElement(items[k].end)
         IN  IF k > 1 /\ cats[k - 1] = c
             THEN [before EXCEPT ![c] = [@ EXCEPT ![Len(@)] = Append(@, b)]]
             ELSE IF c \in DOMAIN before
             THEN [before EXCEPT ![c] = Append(@, <<a, b>>)]
             ELSE MapSet(before, c, << <<a, b>> >>)

SurfaceCategories(run) == [i \in Edges(run) |-> EdgeSurface(run, i)]
LitCategories(run) == [i \in Edges(run) |-> EdgeLit(run, i)]

---------------------------------------------------------------------------
\* C2: after a completed run on a well-formed route that visits no node
\* twice, for every edge and each axis, the edge's two coordinates are consecutive in
\* exactly one polyline of the edge's category and in no polyline of any
\* other category of the axis.
C2_EdgeInExactlyOnePolyline ==
    (Published /\ WellFormed(Pub) /\ SimpleRoute(Pub)) =>
        \A i \in Edges(Pub) :
            LET item == Pub.queryItems[i]
            IN  /\ Cardinality(Holding(surfacePaths[1], EdgeSurface(Pub, i), item)) = 1
                /\ \A c \in DOMAIN surfacePaths[1] \ {EdgeSurface(Pub, i)} :
                      Holding(surfacePaths[1], c, item) = {}
                /\ Cardinality(Holding(illuminatedPaths[1], EdgeLit(Pub, i), item)) = 1
                /\ \A c \in DOMAIN illuminatedPaths[1] \ {EdgeLit(Pub, i)} :
                      Holding(illuminatedPaths[1], c, item) = {}

---------------------------------------------------------------------------
\* C3: after a completed run on a well-formed route that visits no node
\* twice, on each axis, the polylines of every category are exactly the
\* maximal runs of route-consecutive edges of the category, each listing
\* its run's node coordinates in route order.
C3_PolylinesAreMaximalRuns ==
    (Published /\ WellFormed(Pub) /\ SimpleRoute(Pub)) =>
        /\ surfacePaths[1] =
              MaximalRuns(Pub.queryItems, SurfaceCategories(Pub), Len(Pub.queryItems))
        /\ illuminatedPaths[1] =
              MaximalRuns(Pub.queryItems, LitCategories(Pub), Len(Pub.queryItems))

---------------------------------------------------------------------------
(* Answers that differ on one axis only.                                   *)

\* the object tags with property p set to v
WithProperty(tags, p, v) ==
    [x \in DOMAIN tags \cup {p} |-> IF x = p THEN v ELSE tags[x]]

\* the object tags without property p
WithoutProperty(tags, p) == [x \in DOMAIN tags \ {p} |-> tags[x]]

\* the way with any raw value, or none, for tag p
TagVariants(way, p, raws) ==
    IF "tags" \notin DOMAIN way THEN {way}
    ELSE {[way EXCEPT !.tags = WithoutProperty(way.tags, p)]}
         \cup {[way EXCEPT !.tags = WithProperty(way.tags, p, v)] : v \in raws}

\* the answers equal to ways but for the raw values of tag p
AnswerVariants(ways, p, raws) ==
    {v \in [DOMAIN ways -> UNION {TagVariants(ways[k], p, raws) : k \in DOMAIN ways}] :
        \A k \in DOMAIN ways : v[k] \in TagVariants(ways[k], p, raws)}

\* what the setters receive when the run's request is answered with ways
OutputsOn(run, ways) ==
    setterArguments(loop(run.queryItems, ways, Len(run.queryItems)))

---------------------------------------------------------------------------
\* C4: the surface outputs of a completed run on a well-formed route that
\* visits no node twice (totals and polylines) are those of every run on
\* the same route whose answer differs in the illumination tags only, and
\* the illumination outputs are those of every run whose answer differs in
\* the surface tags only.
C4_AxesIndependent ==
    (Published /\ WellFormed(Pub) /\ SimpleRoute(Pub)) =>
        /\ \A ways \in AnswerVariants(Pub.ways, "lit", {"no", "yes"}) :
              /\ OutputsOn(Pub, ways)[1] = surfacesOnRoute
              /\ OutputsOn(Pub, ways)[4] = surfacePaths
        /\ \A ways \in AnswerVariants(Pub.ways, "surface", {"asphalt", "paved", "tartan"}) :
              /\ OutputsOn(Pub, ways)[2] = illuminatedOnRoute
              /\ OutputsOn(Pub, ways)[3] = illuminatedPaths

---------------------------------------------------------------------------
\* a run whose request was answered: its callback ran
Answered(r) == runs[r].status \in {"completed", "threw"}

\* C5: a run on a well-formed route in whose answer some edge has no way
\* does not abort: it completes, and the outputs it publishes have the Unknown category on
\* both axes, in the totals and in the polyline groups.
C5_LookupMissIsUnknown ==
    \A r \in DOMAIN runs :
        (/\ Answered(r)
         /\ WellFormed(runs[r])
         /\ \E i \in Edges(runs[r]) : ~HasWay(runs[r].ways, runs[r].queryItems[i]))
        => /\ runs[r].status = "completed"
           /\ \A k \in 1..4 : UNKNOWN \in DOMAIN runs[r].after[k][1]

---------------------------------------------------------------------------
\* the route has fewer than 2 nodes or its distance array has not one
\* distance per edge
Malformed(run) == ~WellFormed(run)

\* C6: a completed run on a malformed route publishes empty totals and
\* empty polyline groups on both axes.
C6_MalformedRouteIsEmpty ==
    (Published /\ Malformed(Pub)) =>
        /\ surfacesOnRoute = Some(<<>>)
        /\ illuminatedOnRoute = Some(<<>>)
        /\ illuminatedPaths = Some(<<>>)
        /\ surfacePaths = Some(<<>>)

---------------------------------------------------------------------------
\* C8: a run on a well-formed route in whose answer every edge has a way
\* classifies every edge
\* (it completes), and the categories that get a total are those of the
\* tables: Unknown for an absent raw value, also of a way without tags,
\* Unlit for "no" and Lit for another value, the table's category for a
\* listed surface and the raw value itself for an unlisted one.
C8_ClassificationTotal ==
    \A r \in DOMAIN runs :
        (/\ Answered(r)
         /\ WellFormed(runs[r])
         /\ \A i \in Edges(runs[r]) : HasWay(runs[r].ways, runs[r].queryItems[i]))
        => /\ runs[r].status = "completed"
           /\ DOMAIN runs[r].after[1][1] = {EdgeSurface(runs[r], i) : i \in Edges(runs[r])}
           /\ DOMAIN runs[r].after[2][1] = {EdgeLit(runs[r], i) : i \in Edges(runs[r])}

---------------------------------------------------------------------------
\* C7: whenever the outputs are set, the run that set them was started for
\* the route that is displayed.
C7_PublishedFromCurrentRoute ==
    Published => (route # Null /\ route[1].id = publishedBy)

---------------------------------------------------------------------------
NoOutputs == <<Null, Null, Null, Null>>

\* the four outputs are all absent, or all those of one completed run
AllOrNothing ==
    \/ outputs = NoOutputs
    \/ \E r \in DOMAIN runs :
          /\ runs[r].status = "completed"
          /\ outputs = OutputsOn(runs[r], runs[r].ways)

\* C10 (as amended): the four outputs are all absent or all those of one
\* completed run, and a run that throws in its loop, or whose fetch fails,
\* leaves the four outputs as they were before it.
C10_NoPartialResult ==
    /\ AllOrNothing
    /\ \A r \in DOMAIN runs :
          runs[r].status # "completed" => runs[r].after = runs[r].before

\* a run has thrown in its loop after the first edge, while the outputs
\* were those of the run of a route that arrived later
C10_Witness ==
    \E r \in DOMAIN runs :
        /\ runs[r].status = "threw"
        /\ HasWay(runs[r].ways, runs[r].queryItems[1])
        /\ runs[r].publisher > r
        /\ runs[r].before # NoOutputs
        /\ outputs = runs[r].before

\* C10 (as stated): the four outputs are all absent or all those of one
\* completed run, and a run that fails leaves the four outputs absent.
\* Outputs that the run of an older route had set (see C7) are not counted
\* against the statement here.
C10_FailedRunLeavesAbsent ==
    /\ AllOrNothing
    /\ \A r \in DOMAIN runs :
          runs[r].status # "completed" =>
              (runs[r].after = NoOutputs \/ runs[r].publisher < r)

---------------------------------------------------------------------------
(* The debounce.                                                           *)

\* the route results that have arrived, by their numbers
Results == 1..(IF route = Null THEN 0 ELSE route[1].id)

\* the call for result k is pending in the debounce
Pending(k) == debounced # Null /\ debounced[1].args.id = k

\* the call for result k was replaced, while pending, by the next call
Superseded(k) == \E e \in debounceLog.superseded : e.id = k

\* the geodata queries sent for result k
QueriesFor(k) == {i \in DOMAIN debounceLog.sent : debounceLog.sent[i].id = k}

\* the geodata requests that were sent: in flight, or ended
SentRequests == {f.id : f \in overpassFetches} \cup DOMAIN runs

\* C11: of the route results of a burst (each arriving while the call for
\* the one before is still pending, at most the debounce interval after it)
\* only the last gets a geodata query, and it gets exactly one, for the
\* whole route, once a full debounce interval has passed since it arrived:
\* every result that has arrived is either superseded and never queried, or
\* pending and not yet queried, or queried exactly once.
C11_OneQueryPerBurst ==
    /\ \A k \in Results :
          \/ Superseded(k) /\ ~Pending(k) /\ QueriesFor(k) = {}
          \/ ~Superseded(k) /\ Pending(k) /\ QueriesFor(k) = {}
          \/ ~Superseded(k) /\ ~Pending(k) /\ Cardinality(QueriesFor(k)) = 1
    /\ \A e \in debounceLog.superseded : e.after <= DEBOUNCE_WAIT
    /\ \A i \in DOMAIN debounceLog.sent :
          debounceLog.sent[i].waited = DEBOUNCE_WAIT
    /\ SentRequests = {debounceLog.sent[i].id : i \in DOMAIN debounceLog.sent}
    /\ \A f \in overpassFetches :
          Len(f.queryItems) = (IF Len(f.nodes) = 0 THEN 0 ELSE Len(f.nodes) - 1)
    /\ route # Null => ~Superseded(route[1].id)

\* three route results have arrived in a burst, the second less than the
\* debounce interval after the first, and one query is in flight, for the
\* third, a route of two edges
C11_Witness ==
    /\ route # Null
    /\ route[1].id = 3
    /\ Superseded(1)
    /\ Superseded(2)
    /\ \E e \in debounceLog.superseded : e.id = 1 /\ e.after < DEBOUNCE_WAIT
    /\ Len(debounceLog.sent) = 1
    /\ \E f \in overpassFetches : f.id = 3 /\ Len(f.queryItems) = 2

---------------------------------------------------------------------------
(* The state of the aggregation loop between its steps.                    *)

\* the number of coordinates over all polylines of an axis
Coordinates(polylines) ==
    SumOver(DOMAIN polylines,
            [c \in DOMAIN polylines |->
                SumOver(DOMAIN polylines[c],
                        [j \in DOMAIN polylines[c] |-> Len(polylines[c][j])])])

\* the number of polylines of an axis
Polylines(polylines) ==
    SumOver(DOMAIN polylines, [c \in DOMAIN polylines |-> Len(polylines[c])])

\* the totals and the polylines of one axis after k edges
AxisConsistent(totals, polylines, k) ==
    /\ DOMAIN totals = DOMAIN polylines
    /\ \A c \in DOMAIN polylines :
          /\ Len(polylines[c]) >= 1
          /\ \A j \in DOMAIN polylines[c] : Len(polylines[c][j]) >= 2
    /\ Coordinates(polylines) = k + Polylines(polylines)

\* C12: after every step of the aggregation loop, on each axis, the
\* categories with a distance total are the categories with a polyline
\* list, no list is empty, every polyline has at least 2 coordinates, and
\* the coordinates of the axis number the edges processed so far plus the
\* polylines of the axis.
C12_LoopInvariant ==
    \A r \in DOMAIN runs :
        (Answered(r) /\ WellFormed(runs[r]) /\ SimpleRoute(runs[r])) =>
            \A k \in 0..Len(runs[r].queryItems) :
                LET st == loop(runs[r].queryItems, runs[r].ways, k)
                IN  ~st.threw =>
                       /\ AxisConsistent(st.surfaces,
                                         deref(st.heap, st.surfacePaths), k)
                       /\ AxisConsistent(st.illuminated,
                                         deref(st.heap, st.illuminatedPaths), k)

=============================================================================
